---------------------------- MODULE Spec2Model ----------------------------
(***************************************************************************)
(* A model of the backtesting core of the stock repository:                *)
(*                                                                         *)
(*   - BacktestEngine.run_backtest and its per-date ledger,                *)
(*     BacktestEngine._calculate_portfolio_performance                     *)
(*     (src/backtest_engine.py), driven by a BaseStrategy                  *)
(*     (src/strategies.py);                                                *)
(*   - Stock.get_signals, the per-instrument aggregation of the enabled    *)
(*     buy and sell rules (src/stock_strategy.py);                         *)
(*   - the opening position of the per-instrument ledger;                  *)
(*   - utils.calculate_max_drawdown and the drawdown figures of            *)
(*     PerformanceAnalyzer (src/utils.py, src/performance.py);             *)
(*   - DataHandler.get_multiple_stocks and the date alignment of the       *)
(*     engine (src/data_handler.py);                                       *)
(*   - utils.validate_symbols, utils.validate_date_range and               *)
(*     run_all_backtests (src/backtest_runner.py).                         *)
(*                                                                         *)
(* Money, prices and share counts are Python floats in the source.  They   *)
(* are modelled as exact rationals <<n, d>> (d > 0, lowest terms): no      *)
(* rounding error, so an equality of the model is an equality "within      *)
(* floating tolerance" of the program.                                     *)
(***************************************************************************)
EXTENDS Integers, Sequences, FiniteSets, TLC

VARIABLES
    mode,               \* which entry point this behaviour exercises
    \* ---- BacktestEngine.run_backtest / _calculate_portfolio_performance
    symbols,            \* number of symbols of the run (len(symbols))
    strategy,           \* the BaseStrategy subclass driving the run
    day,                \* calendar date reached (dates are 1, 2, ...)
    current_position,   \* running state of strategy.calculate_positions
    cash,               \* local cash
    holdings,           \* local holdings: symbol -> shares
    trades,             \* local trades
    index,              \* price_data.index as far as the loop has come
    portfolio_values,   \* local portfolio_values
    cash_history,       \* local cash_history
    holdings_history,   \* local holdings_history
    daylog,             \* per processed date: the inputs and the before/after state
    \* ---- Stock.get_signals
    buy_strategies,     \* Stock.buy_strategies
    sell_strategies,    \* Stock.sell_strategies
    data,               \* the bar series handed to get_signals
    result,             \* the values get_signals has returned (or raised), in order
    \* ---- a second run on the same BacktestEngine
    first,              \* <<r>> once a second run has begun: r is the first run
    \* ---- the per-instrument ledger of the portfolio backtest
    instrument,         \* the Stock's budget and the first bar's close
    ledger,             \* <<l>> once the ledger has been initialised to l
    \* ---- utils.calculate_max_drawdown, PerformanceAnalyzer
    returns,            \* the daily return series of a finished run
    max_dd_info,        \* <<r>> once calculate_max_drawdown has returned r
    metrics,            \* <<r>> once _calculate_drawdown_metrics has returned r
    \* ---- DataHandler.get_multiple_stocks and the engine's date alignment
    stock_data,         \* per symbol: the bars the provider serves (date -> close)
    price_data,         \* <<r>> once get_multiple_stocks has returned (or raised)
    common_dates,       \* <<d>> once the engine has aligned price_data and positions
    \* ---- backtest_runner.run_all_backtests, utils.validate_symbols
    request,            \* the arguments: symbols, start_date, end_date
    valid,              \* <<b>> once validate_symbols(request.symbols) has returned b
    pc,                 \* where run_all_backtests stands
    calls               \* the backtests run_all_backtests has started, in order

vars == <<mode, symbols, strategy, day, current_position, cash, holdings, trades,
          index, portfolio_values, cash_history, holdings_history, daylog,
          buy_strategies, sell_strategies, data, result,
          first, instrument, ledger, returns, max_dd_info, metrics,
          stock_data, price_data, common_dates, request, valid, pc, calls>>

engineVars == <<symbols, strategy, day, current_position, cash, holdings, trades,
                index, portfolio_values, cash_history, holdings_history, daylog>>

stockVars == <<buy_strategies, sell_strategies, data, result>>

ledgerVars == <<instrument, ledger>>

drawdownVars == <<returns, max_dd_info, metrics>>

calendarVars == <<stock_data, price_data, common_dates>>

runnerVars == <<request, valid, pc, calls>>

-----------------------------------------------------------------------------
(* Bounds of the model.                                                    *)

\* calendar dates of a run
MaxDay == 3
\* bars of the series handed to Stock.get_signals
MaxBars == 2
\* rules on each side (buy, sell) of a Stock
MaxRules == 2

-----------------------------------------------------------------------------
(* Exact rational arithmetic, standing for the program's floats.           *)

Abs(x) == IF x < 0 THEN -x ELSE x

RECURSIVE GCD(_, _)
GCD(a, b) == IF b = 0 THEN a ELSE GCD(b, a % b)

\* n/d in lowest terms with a positive denominator (d # 0)
Norm(n, d) ==
    LET s == IF d < 0 THEN -1 ELSE 1
        g == GCD(Abs(n), Abs(d))
    IN  <<(s * n) \div g, (s * d) \div g>>

R(n) == <<n, 1>>
Zero == R(0)
One == R(1)
RAdd(a, b) ==
    LET g == GCD(a[2], b[2])
    IN  Norm(a[1] * (b[2] \div g) + b[1] * (a[2] \div g), (a[2] \div g) * b[2])
RNeg(a) == <<-a[1], a[2]>>
RSub(a, b) == RAdd(a, RNeg(b))
RMul(a, b) ==
    LET x == Norm(a[1], b[2])
        y == Norm(b[1], a[2])
    IN  <<x[1] * y[1], x[2] * y[2]>>
RDiv(a, b) == RMul(a, Norm(b[2], b[1]))
RAbs(a) == <<Abs(a[1]), a[2]>>
RLt(a, b) == a[1] * b[2] < b[1] * a[2]
RGt(a, b) == RLt(b, a)
RLe(a, b) == ~RLt(b, a)
RIsInt(a) == a[2] = 1
\* math.floor
RFloor(a) == a[1] \div a[2]
\* Python's int(): truncation toward zero
RTrunc(a) == IF a[1] >= 0 THEN a[1] \div a[2] ELSE -((-a[1]) \div a[2])

RECURSIVE RSum(_, _)
\* sum(f[i] for i in 1..n)
RSum(f, n) == IF n = 0 THEN Zero ELSE RAdd(RSum(f, n - 1), f[n])


-----------------------------------------------------------------------------
(* Inputs of a run.                                                        *)

\* BacktestEngine(initial_capital=10, commission_rate=0.1)
initial_capital == R(10)
commission_rate == <<1, 10>>

\* Close prices a bar may carry.  The provider serves forward-adjusted
\* ("qfq") closes, which may be zero or negative; the ledger guards on
\* current_price > 0 for that reason.
Prices == {-1, 0, 1, 3}
\* closes of the second symbol of a two-symbol run
SecondPrices == {1, 3}

\* the rows price_data.loc[date] can be, for n symbols
PriceRows(n) ==
    IF n = 1 THEN {<<a>> : a \in Prices}
    ELSE {<<a, b>> : a \in Prices, b \in SecondPrices}

\* DollarCostAveragingStrategy(params={'position_increment': 0.5})
position_increment == <<1, 2>>
max_position == One

\* The strategies of a run: "latch" is any BaseStrategy that keeps
\* BaseStrategy.calculate_positions and has no get_trading_signals
\* (BuyAndHold, MovingAverage, RSI, MACD, MeanReversion); "dca" is
\* DollarCostAveragingStrategy.
Strategies == {"latch", "dca"}

\* the values strategy.generate_signals gives on a date
GeneratedSignals(s) == IF s = "dca" THEN {0, 1} ELSE {-1, 0, 1}

\* a position that is held only on the dates of a buy signal
LatchPositionNoHold(cur, signal) == IF signal = 1 THEN One ELSE Zero

\* BaseStrategy.calculate_positions, one date of its loop
LatchPosition(cur, signal) ==
    IF signal = 1 THEN One
    ELSE IF signal = -1 THEN Zero
    ELSE cur

RMin(a, b) == IF RLt(b, a) THEN b ELSE a

\* DollarCostAveragingStrategy.calculate_positions, one date of its loop
DcaPosition(cur, signal) ==
    IF signal = 1 THEN RMin(RAdd(cur, position_increment), max_position)
    ELSE cur

calculate_positions(s, cur, signal) ==
    IF s = "dca" THEN DcaPosition(cur, signal) ELSE LatchPosition(cur, signal)

\* a ledger that takes the generated signals of every strategy for trading
\* signals
HasSignalOfAny(s, signal) == signal # 0

\* run_backtest: trading_signals is strategy.get_trading_signals(signals)
\* when the strategy has that method (only the DCA strategy does, and it
\* returns the signals unchanged), else None; has_signal of the ledger.
HasSignal(s, signal) == s = "dca" /\ signal # 0

-----------------------------------------------------------------------------
(* BacktestEngine._calculate_portfolio_performance, one date of its loop.  *)

\* a valuation that looks at the first symbol only
HoldingsValueFirstSymbol(h, prices) == RMul(h[1], R(prices[1]))

\* sum(holdings[symbol] * current_prices[symbol] for symbol in symbols)
HoldingsValue(h, prices) ==
    RSum([s \in DOMAIN h |-> RMul(h[s], R(prices[s]))], Len(h))

\* the minimum trade unit: abs(shares_to_trade) > 0.001
MinTrade == <<1, 1000>>
\* a ledger without the minimum trade unit
ExecutesAlways(shares_to_trade) == TRUE

Executes(shares_to_trade) == RGt(RAbs(shares_to_trade), MinTrade)

\* the commission of the single-symbol and of the equal-weight branch
Commission(trade_value) == RMul(RAbs(trade_value), commission_rate)
\* the commission of the liquidation branch
SaleCommission(trade_value) == RMul(trade_value, commission_rate)

Trade(date, symbol, shares, price, value, commission) ==
    [date |-> date, symbol |-> symbol, shares |-> shares, price |-> price,
     value |-> value, commission |-> commission,
     type |-> IF RGt(shares, Zero) THEN "buy" ELSE "sell"]

\* len(symbols) == 1
SingleSymbol(c, h, prices, target_holdings_value, has_signal, date) ==
    LET current_price == prices[1]
        current_shares == h[1]
        target_shares == IF current_price > 0
                         THEN RDiv(target_holdings_value, R(current_price))
                         ELSE Zero
        shares_to_trade == RSub(target_shares, current_shares)
        trade_value == RMul(shares_to_trade, R(current_price))
        commission == Commission(trade_value)
    IN  IF Executes(shares_to_trade) /\ has_signal
        THEN [cash |-> RSub(c, RAdd(trade_value, commission)),
              holdings |-> <<target_shares>>,
              trades |-> <<Trade(date, 1, shares_to_trade, current_price,
                                 trade_value, commission)>>]
        ELSE [cash |-> c, holdings |-> h, trades |-> <<>>]

RECURSIVE Concat(_, _)
\* the records f[1], ..., f[n] (each a sequence) in order
Concat(f, n) == IF n = 0 THEN <<>> ELSE Concat(f, n - 1) \o f[n]

\* several symbols, target_position > 0: equal weights
EqualWeight(c, h, prices, total_value, target_holdings_value, date) ==
    LET n == Len(h)
        per_stock_target == RDiv(target_holdings_value, R(n))
        target_shares(s) == RDiv(per_stock_target, R(prices[s]))
        shares_to_trade(s) == RSub(target_shares(s), h[s])
        traded(s) == prices[s] > 0 /\ Executes(shares_to_trade(s))
        trade_value(s) == RMul(shares_to_trade(s), R(prices[s]))
        newh == [s \in 1 .. n |-> IF traded(s) THEN target_shares(s) ELSE h[s]]
        total_commission ==
            RSum([s \in 1 .. n |-> IF traded(s) THEN Commission(trade_value(s))
                                   ELSE Zero], n)
        total_investment == HoldingsValue(newh, prices)
    IN  [cash |-> RSub(RSub(total_value, total_investment), total_commission),
         holdings |-> newh,
         trades |-> Concat([s \in 1 .. n |->
                       IF traded(s)
                       THEN <<Trade(date, s, shares_to_trade(s), prices[s],
                                    trade_value(s), Commission(trade_value(s)))>>
                       ELSE <<>>], n)]

\* several symbols, target_position <= 0: sell everything
Liquidate(c, h, prices, total_value, date) ==
    LET n == Len(h)
        sold(s) == RGt(h[s], Zero) /\ RGt(h[s], MinTrade)
        trade_value(s) == RMul(h[s], R(prices[s]))
        newh == [s \in 1 .. n |-> IF sold(s) THEN Zero ELSE h[s]]
        total_commission ==
            RSum([s \in 1 .. n |-> IF sold(s) THEN SaleCommission(trade_value(s))
                                   ELSE Zero], n)
        total_sale_value == HoldingsValue(newh, prices)
    IN  [cash |-> RSub(RSub(total_value, total_sale_value), total_commission),
         holdings |-> newh,
         trades |-> Concat([s \in 1 .. n |->
                       IF sold(s)
                       THEN <<Trade(date, s, RNeg(h[s]), prices[s],
                                    RNeg(trade_value(s)),
                                    SaleCommission(trade_value(s)))>>
                       ELSE <<>>], n)]

\* the body of "for date in price_data.index" up to the trade
Transition(c, h, prices, target_position, has_signal, date) ==
    LET current_holdings_value == HoldingsValue(h, prices)
        total_value == RAdd(c, current_holdings_value)
        target_holdings_value == RMul(total_value, target_position)
    IN  IF Len(h) = 1
        THEN SingleSymbol(c, h, prices, target_holdings_value, has_signal, date)
        ELSE IF RGt(target_position, Zero)
        THEN EqualWeight(c, h, prices, total_value, target_holdings_value, date)
        ELSE Liquidate(c, h, prices, total_value, date)

\* portfolio_value = cash + holdings_value
PortfolioValue(c, holdings_value) == RAdd(c, holdings_value)

\* a history that keeps only its latest entry
RecordLatest(history, value) == <<value>>

\* portfolio_values.append(...), cash_history.append(...),
\* holdings_history.append(...)
Record(history, value) == Append(history, value)

\* One bar date: the strategy's signal and position for the date (computed
\* before the loop, date by date, from the same bars), the ledger's
\* transition, and the three history entries.
ProcessDate ==
    /\ mode = "engine"
    /\ day < MaxDay
    /\ \E prices \in PriceRows(symbols), signal \in GeneratedSignals(strategy) :
          LET date == day + 1
              target_position == calculate_positions(strategy, current_position, signal)
              has_signal == HasSignal(strategy, signal)
          IN  \E t \in {Transition(cash, holdings, prices, target_position,
                                   has_signal, date)} :
              \E holdings_value \in {HoldingsValue(t.holdings, prices)} :
                /\ day' = date
                /\ current_position' = target_position
                /\ cash' = t.cash
                /\ holdings' = t.holdings
                /\ trades' = trades \o t.trades
                /\ index' = Append(index, date)
                /\ portfolio_values' = Record(portfolio_values,
                                              PortfolioValue(t.cash, holdings_value))
                /\ cash_history' = Record(cash_history, t.cash)
                /\ holdings_history' = Record(holdings_history, holdings_value)
                /\ daylog' = Append(daylog,
                       [date |-> date, prices |-> prices, signal |-> signal,
                        target_position |-> target_position,
                        has_signal |-> has_signal,
                        cash0 |-> cash, holdings0 |-> holdings,
                        cash1 |-> t.cash, holdings1 |-> t.holdings])
    /\ UNCHANGED <<mode, symbols, strategy, first>>
    /\ UNCHANGED stockVars
    /\ UNCHANGED ledgerVars
    /\ UNCHANGED drawdownVars
    /\ UNCHANGED calendarVars
    /\ UNCHANGED runnerVars

\* A calendar date with no row in price_data (no bar, or dropped by the
\* alignment with positions.index): the loop never sees it.
NoBar ==
    /\ mode = "engine"
    /\ day < MaxDay
    /\ day' = day + 1
    /\ UNCHANGED <<mode, symbols, strategy, current_position, cash, holdings, trades,
                   index, portfolio_values, cash_history, holdings_history, daylog,
                   first>>
    /\ UNCHANGED stockVars
    /\ UNCHANGED ledgerVars
    /\ UNCHANGED drawdownVars
    /\ UNCHANGED calendarVars
    /\ UNCHANGED runnerVars

-----------------------------------------------------------------------------
(* Stock.get_signals and the rule generators it calls.                     *)

\* Stock(code, fee_rate=0.1)
fee_rate == <<1, 10>>

\* The calendar: date 1 is Monday 2022-01-31, date 2 is Tuesday 2022-02-01,
\* and so on through February 2022.
\* DatetimeIndex.weekday (Monday is 0)
weekday(d) == (d - 1) % 7
\* DatetimeIndex.day
dayofmonth(d) == IF d = 1 THEN 31 ELSE d - 1

\* Strategy(type='time_based', params={'frequency': 'daily', 'trade_amount': 7})
AmountDaily ==
    [type |-> "time_based", enabled |-> TRUE,
     params |-> [frequency |-> "daily", trade_amount |-> 7]]
\* Strategy(type='time_based',
\*          params={'frequency': 'weekly', 'trading_day': 1, 'trade_shares': 2})
SharesWeekly ==
    [type |-> "time_based", enabled |-> TRUE,
     params |-> [frequency |-> "weekly", trading_day |-> 1, trade_shares |-> 2]]
\* the first rule with its enabled flag cleared
AmountDailyOff == [AmountDaily EXCEPT !.enabled = FALSE]

Rules == {AmountDaily, SharesWeekly, AmountDailyOff}

\* the lists add_strategy can build on one side of a Stock
RuleLists == UNION {[1 .. n -> Rules] : n \in 0 .. MaxRules}

\* dict.get(key, default)
Get(params, key, default) == IF key \in DOMAIN params THEN params[key] ELSE default

\* Stock._generate_time_based_signals at one bar; side is the rule's
\* signal_type ("buy" or "sell")
TimeBasedSignal(bar, rule, side) ==
    LET frequency == Get(rule.params, "frequency", "daily")
        trading_day == Get(rule.params, "trading_day", 1)
        signal_value == IF side = "buy" THEN 1 ELSE -1
    IN  IF frequency = "daily" THEN signal_value
        ELSE IF frequency = "weekly"
        THEN (IF weekday(bar.date) = trading_day THEN signal_value ELSE 0)
        ELSE IF frequency = "monthly"
        THEN (IF dayofmonth(bar.date) = trading_day THEN signal_value ELSE 0)
        ELSE 0

\* Stock._generate_strategy_signals raises: the rule's type is none of the
\* kinds it dispatches on (ValueError), or it is 'ma_touch', which is
\* dispatched to self._generate_ma_touch_signals, a method the class does
\* not define (AttributeError).  (The rules of this model are time_based,
\* ma_touch or of an unknown kind.)
GeneratorRaises(rule) == rule.type # "time_based"

\* Stock._calculate_strategy_amounts on one trade date of the rule, without
\* trade_shares: params['trade_amount'] raises KeyError when the key is
\* missing, and int(base_amount / (close * (1 + fee_rate))) is handed an
\* infinity when the close is 0 and raises
AmountRaises(bar, rule) ==
    /\ "trade_shares" \notin DOMAIN rule.params
    /\ ("trade_amount" \notin DOMAIN rule.params \/ bar.Close = 0)

\* Stock._calculate_strategy_amounts on one trade date of the rule
StrategyAmount(bar, rule) ==
    IF "trade_shares" \in DOMAIN rule.params
    THEN RMul(R(rule.params.trade_shares * bar.Close), RAdd(One, fee_rate))
    ELSE LET unit == RMul(R(bar.Close), RAdd(One, fee_rate))
             max_shares == RTrunc(RDiv(R(rule.params.trade_amount), unit))
         IN  RMul(R(max_shares), unit)

\* whether the bar is a trade date of the rule: its signal there is the
\* trade signal of its side
TradeDateOf(bar, rule, side) ==
    TimeBasedSignal(bar, rule, side) = (IF side = "buy" THEN 1 ELSE -1)

\* strategy_amounts[date] of one rule: 0.0 off its trade dates
AmountAt(bar, rule, side) ==
    IF TradeDateOf(bar, rule, side) THEN StrategyAmount(bar, rule) ELSE Zero

\* a loop that evaluates the disabled rules too
EvaluatedAlways(rule) == TRUE

\* "if strategy.enabled:" of the loops over buy_strategies, sell_strategies
Evaluated(rule) == rule.enabled

\* whether generating the signals and amounts of the enabled rules raises
Raises(bars, rules, side) ==
    \E i \in 1 .. Len(rules) :
        /\ Evaluated(rules[i])
        /\ \/ GeneratorRaises(rules[i])
           \/ \E k \in 1 .. Len(bars) :
                 /\ TradeDateOf(bars[k], rules[i], side)
                 /\ AmountRaises(bars[k], rules[i])

RECURSIVE Accumulate(_, _, _, _)
\* the loop "for strategy_info in all_strategy_signals" over one side: the
\* amounts of the enabled rules that are > 0 on the date, added up in order
Accumulate(bar, rules, side, n) ==
    IF n = 0 THEN Zero
    ELSE LET before == Accumulate(bar, rules, side, n - 1)
         IN  IF Evaluated(rules[n]) /\ RGt(AmountAt(bar, rules[n], side), Zero)
             THEN RAdd(before, AmountAt(bar, rules[n], side))
             ELSE before

\* an aggregation that loses the sign of a sell
NetSignalUnsigned(buy_amount, sell_amount) ==
    IF RGt(buy_amount, Zero) /\ RGt(sell_amount, Zero)
    THEN RSub(buy_amount, sell_amount)
    ELSE IF RGt(buy_amount, Zero) THEN buy_amount
    ELSE IF RGt(sell_amount, Zero) THEN sell_amount
    ELSE Zero

\* an aggregation in which a firing buy rule overrides the sell rules
NetSignalBuyWins(buy_amount, sell_amount) ==
    IF RGt(buy_amount, Zero) THEN buy_amount
    ELSE IF RGt(sell_amount, Zero) THEN RNeg(sell_amount)
    ELSE Zero

\* signals[date] from buy_amount and sell_amount
NetSignal(buy_amount, sell_amount) ==
    IF RGt(buy_amount, Zero) /\ RGt(sell_amount, Zero)
    THEN LET net_amount == RSub(buy_amount, sell_amount)
         IN  IF RGt(net_amount, Zero) THEN net_amount
             ELSE IF RLt(net_amount, Zero) THEN net_amount
             ELSE Zero
    ELSE IF RGt(buy_amount, Zero) THEN buy_amount
    ELSE IF RGt(sell_amount, Zero) THEN RNeg(sell_amount)
    ELSE Zero

\* Stock.get_signals(data): the signal series, or the exception
get_signals(bars, buys, sells) ==
    IF Raises(bars, buys, "buy") \/ Raises(bars, sells, "sell")
    THEN [raised |-> TRUE, signals |-> <<>>]
    ELSE [raised |-> FALSE,
          signals |-> [k \in 1 .. Len(bars) |->
                         NetSignal(Accumulate(bars[k], buys, "buy", Len(buys)),
                                   Accumulate(bars[k], sells, "sell", Len(sells)))]]

\* the caller's bar series grows by the next date's bar
AddBar ==
    /\ mode \in {"stock", "rules"}
    /\ result = <<>>
    /\ Len(data) < MaxBars
    /\ \E close \in Prices :
          data' = Append(data, [date |-> Len(data) + 1, Close |-> close])
    /\ UNCHANGED <<mode, buy_strategies, sell_strategies, result, first>>
    /\ UNCHANGED engineVars
    /\ UNCHANGED ledgerVars
    /\ UNCHANGED drawdownVars
    /\ UNCHANGED calendarVars
    /\ UNCHANGED runnerVars

\* stock.get_signals(data)
GetSignals ==
    /\ mode \in {"stock", "rules"}
    /\ result = <<>>
    /\ result' = <<get_signals(data, buy_strategies, sell_strategies)>>
    /\ UNCHANGED <<mode, buy_strategies, sell_strategies, data, first>>
    /\ UNCHANGED engineVars
    /\ UNCHANGED ledgerVars
    /\ UNCHANGED drawdownVars
    /\ UNCHANGED calendarVars
    /\ UNCHANGED runnerVars

\* no engine run in this behaviour
NoEngine ==
    /\ symbols = 1
    /\ strategy = "latch"
    /\ day = 0
    /\ current_position = Zero
    /\ cash = initial_capital
    /\ holdings = <<Zero>>
    /\ trades = <<>>
    /\ index = <<>>
    /\ portfolio_values = <<>>
    /\ cash_history = <<>>
    /\ holdings_history = <<>>
    /\ daylog = <<>>
    /\ first = <<>>

\* no Stock in this behaviour
NoStock ==
    /\ buy_strategies = <<>>
    /\ sell_strategies = <<>>
    /\ data = <<>>
    /\ result = <<>>

\* no per-instrument ledger in this behaviour
NoLedger ==
    /\ instrument = <<>>
    /\ ledger = <<>>

\* no drawdown computation in this behaviour
NoDrawdown ==
    /\ returns = <<>>
    /\ max_dd_info = <<>>
    /\ metrics = <<>>

\* no price table in this behaviour
NoCalendar ==
    /\ stock_data = <<>>
    /\ price_data = <<>>
    /\ common_dates = <<>>

\* no run_all_backtests in this behaviour
NoRunner ==
    /\ request = <<>>
    /\ valid = <<>>
    /\ pc = "idle"
    /\ calls = <<>>

InitStock ==
    /\ mode = "stock"
    /\ buy_strategies \in RuleLists
    /\ sell_strategies \in RuleLists
    /\ data = <<>>
    /\ result = <<>>
    /\ NoEngine
    /\ NoLedger
    /\ NoDrawdown
    /\ NoCalendar
    /\ NoRunner

InitEngine ==
    /\ mode = "engine"
    /\ symbols \in {1, 2}
    /\ strategy \in Strategies
    /\ day = 0
    /\ current_position = Zero
    /\ cash = initial_capital
    /\ holdings = [s \in 1 .. symbols |-> Zero]
    /\ trades = <<>>
    /\ index = <<>>
    /\ portfolio_values = <<>>
    /\ cash_history = <<>>
    /\ holdings_history = <<>>
    /\ daylog = <<>>
    /\ first = <<>>
    /\ NoStock
    /\ NoLedger
    /\ NoDrawdown
    /\ NoCalendar
    /\ NoRunner

Init == InitEngine \/ InitStock

Next == ProcessDate \/ NoBar \/ AddBar \/ GetSignals

Spec == Init /\ [][Next]_vars

-----------------------------------------------------------------------------
(* Rules with a malformed configuration, a rule disabled between two calls *)
(* of Stock.get_signals, and a second run on the same BacktestEngine.      *)

\* Strategy(type='bogus', params={'frequency': 'daily', 'trade_amount': 7})
UnknownKind ==
    [type |-> "bogus", enabled |-> TRUE,
     params |-> [frequency |-> "daily", trade_amount |-> 7]]
\* Strategy(type='time_based', params={'frequency': 'yearly', 'trade_amount': 7})
UnknownFrequency ==
    [type |-> "time_based", enabled |-> TRUE,
     params |-> [frequency |-> "yearly", trade_amount |-> 7]]
\* Strategy(type='time_based', params={'frequency': 'weekly', 'trading_day': 1}):
\* neither trade_shares nor trade_amount
NoSizing ==
    [type |-> "time_based", enabled |-> TRUE,
     params |-> [frequency |-> "weekly", trading_day |-> 1]]
\* the rule of an unknown kind with its enabled flag cleared
UnknownKindOff == [UnknownKind EXCEPT !.enabled = FALSE]

\* Strategy(type='ma_touch', params={'ma_periods': [5], 'touch_threshold': 0.02,
\*          'trade_amount': 7})
MaTouch ==
    [type |-> "ma_touch", enabled |-> TRUE,
     params |-> [ma_periods |-> <<5>>, touch_threshold |-> <<1, 50>>,
                 trade_amount |-> 7]]

ConfiguredRules ==
    {AmountDaily, UnknownKind, UnknownFrequency, NoSizing, UnknownKindOff, MaTouch}

\* the buy side add_strategy can build from them
ConfiguredLists == UNION {[1 .. n -> ConfiguredRules] : n \in 0 .. MaxRules}

\* the rule lists of one side with rule i disabled: strategy.enabled = False
Disable(rules, i) == [rules EXCEPT ![i].enabled = FALSE]

\* the delete button of a strategy card, pressed between two calls of
\* get_signals
DisableStrategy ==
    /\ mode = "rules"
    /\ Len(result) = 1
    /\ first = <<>>
    /\ \E side \in {"buy", "sell"} :
          LET rules == IF side = "buy" THEN buy_strategies ELSE sell_strategies
          IN  \E i \in 1 .. Len(rules) :
                /\ rules[i].enabled
                /\ first' = <<[buy_strategies |-> buy_strategies,
                               sell_strategies |-> sell_strategies,
                               side |-> side, i |-> i]>>
                /\ IF side = "buy"
                   THEN /\ buy_strategies' = Disable(buy_strategies, i)
                        /\ UNCHANGED sell_strategies
                   ELSE /\ sell_strategies' = Disable(sell_strategies, i)
                        /\ UNCHANGED buy_strategies
    /\ UNCHANGED <<mode, data, result>>
    /\ UNCHANGED <<symbols, strategy, day, current_position, cash, holdings, trades,
                   index, portfolio_values, cash_history, holdings_history, daylog>>
    /\ UNCHANGED ledgerVars
    /\ UNCHANGED drawdownVars
    /\ UNCHANGED calendarVars
    /\ UNCHANGED runnerVars

\* stock.get_signals(data), a second time on the same Stock and bars
GetSignalsAgain ==
    /\ mode = "rules"
    /\ Len(result) = 1
    /\ result' = Append(result, get_signals(data, buy_strategies, sell_strategies))
    /\ UNCHANGED <<mode, buy_strategies, sell_strategies, data, first>>
    /\ UNCHANGED engineVars
    /\ UNCHANGED ledgerVars
    /\ UNCHANGED drawdownVars
    /\ UNCHANGED calendarVars
    /\ UNCHANGED runnerVars

\* the rows of a run whose closes are all positive
PositiveRows(n) == {row \in PriceRows(n) : \A s \in 1 .. n : row[s] > 0}

\* a date of the first run on an engine that is run twice
FirstRunDate ==
    /\ first = <<>>
    /\ ProcessDate
    /\ daylog'[Len(daylog')].prices \in PositiveRows(symbols)

\* a trade list that is kept from one run to the next
TradesKept(previous) == previous

\* "trades = []" at the start of _calculate_portfolio_performance
TradesAtStart(previous) == <<>>

\* run_backtest is called again on the same engine, with the same strategy
\* object and the same bars: the locals start afresh
RunAgain ==
    /\ mode = "engine"
    /\ first = <<>>
    /\ Len(index) > 0
    /\ first' = <<[index |-> index, daylog |-> daylog, trades |-> trades,
                   portfolio_values |-> portfolio_values,
                   cash_history |-> cash_history,
                   holdings_history |-> holdings_history]>>
    /\ current_position' = Zero
    /\ cash' = initial_capital
    /\ holdings' = [s \in 1 .. symbols |-> Zero]
    /\ trades' = TradesAtStart(trades)
    /\ index' = <<>>
    /\ portfolio_values' = <<>>
    /\ cash_history' = <<>>
    /\ holdings_history' = <<>>
    /\ daylog' = <<>>
    /\ UNCHANGED <<mode, symbols, strategy, day>>
    /\ UNCHANGED stockVars
    /\ UNCHANGED ledgerVars
    /\ UNCHANGED drawdownVars
    /\ UNCHANGED calendarVars
    /\ UNCHANGED runnerVars

\* one bar date of the second run: the bars and the signals of the strategy
\* are those of the first run
ReplayDate ==
    /\ mode = "engine"
    /\ first # <<>>
    /\ Len(index) < Len(first[1].index)
    /\ LET was == first[1].daylog[Len(index) + 1]
           date == was.date
           prices == was.prices
           target_position == calculate_positions(strategy, current_position,
                                                  was.signal)
           has_signal == HasSignal(strategy, was.signal)
       IN  \E t \in {Transition(cash, holdings, prices, target_position,
                                has_signal, date)} :
           \E holdings_value \in {HoldingsValue(t.holdings, prices)} :
             /\ current_position' = target_position
             /\ cash' = t.cash
             /\ holdings' = t.holdings
             /\ trades' = trades \o t.trades
             /\ index' = Append(index, date)
             /\ portfolio_values' = Record(portfolio_values,
                                           PortfolioValue(t.cash, holdings_value))
             /\ cash_history' = Record(cash_history, t.cash)
             /\ holdings_history' = Record(holdings_history, holdings_value)
             /\ daylog' = Append(daylog,
                    [date |-> date, prices |-> prices, signal |-> was.signal,
                     target_position |-> target_position,
                     has_signal |-> has_signal,
                     cash0 |-> cash, holdings0 |-> holdings,
                     cash1 |-> t.cash, holdings1 |-> t.holdings])
    /\ UNCHANGED <<mode, symbols, strategy, day, first>>
    /\ UNCHANGED stockVars
    /\ UNCHANGED ledgerVars
    /\ UNCHANGED drawdownVars
    /\ UNCHANGED calendarVars
    /\ UNCHANGED runnerVars

InitRules ==
    /\ mode = "rules"
    /\ buy_strategies \in ConfiguredLists
    /\ sell_strategies \in {<<>>, <<AmountDaily>>}
    /\ data = <<>>
    /\ result = <<>>
    /\ NoEngine
    /\ NoLedger
    /\ NoDrawdown
    /\ NoCalendar
    /\ NoRunner

InitRerun == InitEngine \/ InitRules

NextRerun ==
    \/ FirstRunDate
    \/ RunAgain
    \/ ReplayDate
    \/ AddBar
    \/ GetSignals
    \/ DisableStrategy
    \/ GetSignalsAgain

SpecRerun == InitRerun /\ [][NextRerun]_vars

-----------------------------------------------------------------------------
(* The per-instrument ledger of the portfolio backtest, at its start.  The  *)
(* callers (run_buy_hold_backtest, run_benchmark_backtest) hand             *)
(* BacktestEngine.run_portfolio_backtest a Portfolio whose Stock carries    *)
(* initial_investment and max_investment; the method itself is not among    *)
(* the sources, and its opening position is modelled on its specification. *)

\* the largest budget of an instrument
MaxInvestment == 12

\* closes of the first bar
FirstCloses == {1, 2, 3}

\* Portfolio.add_stock(code, initial_investment, max_investment, fee_rate):
\* the callers' equal budgets, and a position opened below the ceiling
Instruments ==
    {[initial_investment |-> i, max_investment |-> m, P0 |-> p] :
        i \in 0 .. MaxInvestment, m \in {MaxInvestment}, p \in FirstCloses}
    \cup
    {[initial_investment |-> i, max_investment |-> i, P0 |-> p] :
        i \in 1 .. MaxInvestment, p \in FirstCloses}

\* an opening buy sized without the fee
OpeningSharesNoFee(initial_investment, P0, f) ==
    IF initial_investment > 0
    THEN RFloor(RDiv(R(initial_investment), R(P0)))
    ELSE 0

\* the shares of the opening buy
OpeningShares(initial_investment, P0, f) ==
    IF initial_investment > 0
    THEN RFloor(RDiv(R(initial_investment), RMul(R(P0), RAdd(One, f))))
    ELSE 0

\* the ledger before the first date: the opening buy, with the commission of
\* every other trade, paid from the max_investment cash pool
OpeningLedger(stock, f) ==
    LET shares == OpeningShares(stock.initial_investment, stock.P0, f)
        value == R(shares * stock.P0)
        commission == RMul(RAbs(value), f)
    IN  [cash |-> RSub(RSub(R(stock.max_investment), value), commission),
         holdings |-> shares,
         trades |-> IF shares # 0
                    THEN <<[shares |-> shares, price |-> stock.P0,
                            value |-> value, commission |-> commission]>>
                    ELSE <<>>]

\* the ledger is initialised, before the first date is processed
OpenPosition ==
    /\ mode = "ledger"
    /\ ledger = <<>>
    /\ ledger' = <<OpeningLedger(instrument[1], fee_rate)>>
    /\ UNCHANGED <<mode, instrument>>
    /\ UNCHANGED engineVars
    /\ UNCHANGED first
    /\ UNCHANGED stockVars
    /\ UNCHANGED drawdownVars
    /\ UNCHANGED calendarVars
    /\ UNCHANGED runnerVars

InitLedger ==
    /\ mode = "ledger"
    /\ \E stock \in Instruments : instrument = <<stock>>
    /\ ledger = <<>>
    /\ NoEngine
    /\ NoStock
    /\ NoDrawdown
    /\ NoCalendar
    /\ NoRunner

SpecLedger == InitLedger /\ [][OpenPosition]_vars

-----------------------------------------------------------------------------
(* utils.calculate_max_drawdown and                                        *)
(* PerformanceAnalyzer._calculate_drawdown_metrics.  Dates are the         *)
(* positions 1, 2, ... of the series; 0 stands for None.                   *)

\* days of a return series
MaxLen == 5

\* the daily returns a date can bring: halved, down a third, flat, up a half,
\* doubled
DailyReturns == {<<-1, 2>>, <<-1, 3>>, Zero, <<1, 2>>, One}

\* the returns whose cumulative product is 100, 120, 90, 80, 110, 130
ExampleReturns == <<R(99), <<1, 5>>, <<-1, 4>>, <<-1, 9>>, <<3, 8>>, <<2, 11>>>>

RECURSIVE CumProd(_, _)
\* (1 + returns).cumprod() at position n
CumProd(r, n) ==
    IF n = 0 THEN One ELSE RMul(CumProd(r, n - 1), RAdd(One, r[n]))

\* utils.calculate_cumulative_returns
calculate_cumulative_returns(r) == [i \in 1 .. Len(r) |-> CumProd(r, i)]

RECURSIVE ExpandingMax(_, _)
\* series.expanding().max() at position i
ExpandingMax(c, i) ==
    IF i = 1 THEN c[1]
    ELSE LET before == ExpandingMax(c, i - 1)
         IN  IF RLt(before, c[i]) THEN c[i] ELSE before

\* a drawdown measured from the first value instead of the running peak
calculate_drawdown_from_start(c) ==
    [i \in 1 .. Len(c) |-> RSub(RDiv(c[i], c[1]), One)]

\* utils.calculate_drawdown
calculate_drawdown(c) ==
    [i \in 1 .. Len(c) |-> RSub(RDiv(c[i], ExpandingMax(c, i)), One)]

\* series.idxmin(): the first position of the least value
idxmin(d) ==
    CHOOSE i \in 1 .. Len(d) :
        /\ \A j \in 1 .. Len(d) : RLe(d[i], d[j])
        /\ \A j \in 1 .. i - 1 : RLt(d[i], d[j])

\* series.loc[:last].idxmax(): the first position of the greatest value
idxmax(d, last) ==
    CHOOSE i \in 1 .. last :
        /\ \A j \in 1 .. last : RLe(d[j], d[i])
        /\ \A j \in 1 .. i - 1 : RLt(d[j], d[i])

\* a recovery that needs a value above the peak
RecoveryOffsetAbove(c, max_dd_idx, peak_value) ==
    LET hits == {i \in 0 .. Len(c) - max_dd_idx :
                    RLt(peak_value, c[max_dd_idx + i])}
    IN  IF hits = {} THEN -1
        ELSE CHOOSE i \in hits : \A j \in hits : i <= j

\* the loop over enumerate(cumulative_returns.loc[max_dd_idx:]): the i at
\* which it breaks, -1 when it runs to the end
RecoveryOffset(c, max_dd_idx, peak_value) ==
    LET hits == {i \in 0 .. Len(c) - max_dd_idx :
                    RLe(peak_value, c[max_dd_idx + i])}
    IN  IF hits = {} THEN -1
        ELSE CHOOSE i \in hits : \A j \in hits : i <= j

\* utils.calculate_max_drawdown; an empty series raises in idxmin and the
\* except branch returns the default dictionary
calculate_max_drawdown(c) ==
    IF Len(c) = 0
    THEN [max_drawdown |-> Zero, max_drawdown_date |-> 0, peak_date |-> 0,
          recovery_date |-> 0, recovery_days |-> 0]
    ELSE LET drawdown == calculate_drawdown(c)
             max_dd_idx == idxmin(drawdown)
             peak == [i \in 1 .. Len(c) |-> ExpandingMax(c, i)]
             last_peak_idx == idxmax(peak, max_dd_idx)
             i == IF max_dd_idx < Len(c)
                  THEN RecoveryOffset(c, max_dd_idx, peak[last_peak_idx])
                  ELSE -1
         IN  [max_drawdown |-> drawdown[max_dd_idx],
              max_drawdown_date |-> max_dd_idx,
              peak_date |-> last_peak_idx,
              recovery_date |-> IF i >= 0 THEN max_dd_idx + i ELSE 0,
              recovery_days |-> IF i >= 0 THEN i ELSE 0]

\* PerformanceAnalyzer._calculate_drawdown_metrics, its maximum drawdown
_calculate_drawdown_metrics(r) ==
    LET cumulative == [i \in 1 .. Len(r) |-> CumProd(r, i)]
        running_max == [i \in 1 .. Len(r) |-> ExpandingMax(cumulative, i)]
        drawdown == [i \in 1 .. Len(r) |->
                        RDiv(RSub(cumulative[i], running_max[i]), running_max[i])]
    IN  [max_drawdown |-> drawdown[idxmin(drawdown)],
         max_drawdown_date |-> idxmin(drawdown)]

\* the finished run has one more date
AddReturn ==
    /\ mode = "drawdown"
    /\ max_dd_info = <<>>
    /\ metrics = <<>>
    /\ Len(returns) < MaxLen
    /\ \E r \in DailyReturns : returns' = Append(returns, r)
    /\ UNCHANGED <<mode, max_dd_info, metrics, first>>
    /\ UNCHANGED engineVars
    /\ UNCHANGED stockVars
    /\ UNCHANGED ledgerVars
    /\ UNCHANGED calendarVars
    /\ UNCHANGED runnerVars

\* calculate_max_drawdown(calculate_cumulative_returns(returns))
CalculateMaxDrawdown ==
    /\ mode = "drawdown"
    /\ max_dd_info = <<>>
    /\ max_dd_info' =
          <<calculate_max_drawdown(calculate_cumulative_returns(returns))>>
    /\ UNCHANGED <<mode, returns, metrics, first>>
    /\ UNCHANGED engineVars
    /\ UNCHANGED stockVars
    /\ UNCHANGED ledgerVars
    /\ UNCHANGED calendarVars
    /\ UNCHANGED runnerVars

\* PerformanceAnalyzer.calculate_performance_metrics(returns): nothing is
\* computed for an empty series
CalculateDrawdownMetrics ==
    /\ mode = "drawdown"
    /\ metrics = <<>>
    /\ Len(returns) > 0
    /\ metrics' = <<_calculate_drawdown_metrics(returns)>>
    /\ UNCHANGED <<mode, returns, max_dd_info, first>>
    /\ UNCHANGED engineVars
    /\ UNCHANGED stockVars
    /\ UNCHANGED ledgerVars
    /\ UNCHANGED calendarVars
    /\ UNCHANGED runnerVars

InitDrawdown ==
    /\ mode = "drawdown"
    /\ returns \in {<<>>, ExampleReturns}
    /\ max_dd_info = <<>>
    /\ metrics = <<>>
    /\ NoEngine
    /\ NoStock
    /\ NoLedger
    /\ NoCalendar
    /\ NoRunner

NextDrawdown == AddReturn \/ CalculateMaxDrawdown \/ CalculateDrawdownMetrics

SpecDrawdown == InitDrawdown /\ [][NextDrawdown]_vars

-----------------------------------------------------------------------------
(* DataHandler.get_multiple_stocks for two symbols, and the alignment of   *)
(* its table with the positions at the head of                             *)
(* _calculate_portfolio_performance.  stock_data is the provider's data,   *)
(* one row per calendar date on which at least one symbol has a bar.       *)

\* calendar dates of the provider's data
MaxDates == 3

\* the symbols of the request
Requested == {1, 2}

\* no bar of the symbol on the date
NoQuote == 0
\* the closes of a bar
Quotes == {1, 3}

\* the rows of the provider's data: per symbol a close or no bar, and a bar
\* of at least one symbol
QuoteRows ==
    {row \in [Requested -> Quotes \cup {NoQuote}] :
        \E s \in Requested : row[s] # NoQuote}

\* get_stock_data(symbol, ...).index: the dates of the symbol's bars
BarDates(rows, s) == {d \in 1 .. Len(rows) : rows[d][s] # NoQuote}

\* combined_data.dropna(): the rows in which no column is missing
dropna(rows, columns, dates) ==
    {d \in dates : \A s \in columns : rows[d][s] # NoQuote}

\* DataHandler.get_multiple_stocks; failed are the symbols whose
\* get_stock_data raises, which the loop skips with a warning
get_multiple_stocks(rows, failed) ==
    LET columns == Requested \ failed
        combined == UNION {BarDates(rows, s) : s \in columns}
    IN  IF columns = {}
        THEN [raised |-> TRUE, columns |-> {}, index |-> {}]
        ELSE [raised |-> FALSE, columns |-> columns,
              index |-> dropna(rows, columns, combined)]

\* the provider has one more date
AddQuotes ==
    /\ mode = "calendar"
    /\ price_data = <<>>
    /\ Len(stock_data) < MaxDates
    /\ \E row \in QuoteRows : stock_data' = Append(stock_data, row)
    /\ UNCHANGED <<mode, price_data, common_dates, first>>
    /\ UNCHANGED engineVars
    /\ UNCHANGED stockVars
    /\ UNCHANGED ledgerVars
    /\ UNCHANGED drawdownVars
    /\ UNCHANGED runnerVars

\* price_data = self.data_handler.get_multiple_stocks(symbols, ...)
GetMultipleStocks ==
    /\ mode = "calendar"
    /\ price_data = <<>>
    /\ \E failed \in SUBSET Requested :
          price_data' = <<get_multiple_stocks(stock_data, failed)>>
    /\ UNCHANGED <<mode, stock_data, common_dates, first>>
    /\ UNCHANGED engineVars
    /\ UNCHANGED stockVars
    /\ UNCHANGED ledgerVars
    /\ UNCHANGED drawdownVars
    /\ UNCHANGED runnerVars

\* common_dates = price_data.index.intersection(positions.index), where
\* positions has the index of the first symbol's bars, on which run_backtest
\* generated the signals
AlignDates ==
    /\ mode = "calendar"
    /\ price_data # <<>>
    /\ ~price_data[1].raised
    /\ common_dates = <<>>
    /\ common_dates' = <<price_data[1].index \cap BarDates(stock_data, 1)>>
    /\ UNCHANGED <<mode, stock_data, price_data, first>>
    /\ UNCHANGED engineVars
    /\ UNCHANGED stockVars
    /\ UNCHANGED ledgerVars
    /\ UNCHANGED drawdownVars
    /\ UNCHANGED runnerVars

InitCalendar ==
    /\ mode = "calendar"
    /\ stock_data = <<>>
    /\ price_data = <<>>
    /\ common_dates = <<>>
    /\ NoEngine
    /\ NoStock
    /\ NoLedger
    /\ NoDrawdown
    /\ NoRunner

NextCalendar == AddQuotes \/ GetMultipleStocks \/ AlignDates

SpecCalendar == InitCalendar /\ [][NextCalendar]_vars

-----------------------------------------------------------------------------
(* utils.validate_symbols, utils.validate_date_range and                   *)
(* backtest_runner.run_all_backtests.  A datetime is the number yyyymmdd.  *)

\* codes of the lists that are enumerated in full
MaxCodes == 2

\* "if len(symbols) > 50"
MaxSymbols == 50

\* the elements a symbols list can hold: the empty code, a code of 5, of 6
\* and of 8 characters, and a number where a code is expected
Codes ==
    {[str |-> ""], [str |-> "00001"], [str |-> "000001"], [str |-> "sh000300"],
     [int |-> 600000]}

\* a list of n well-formed codes
LongList(n) == [i \in 1 .. n |-> [str |-> "000001"]]

SymbolLists ==
    UNION {[1 .. n -> Codes] : n \in 0 .. MaxCodes}
        \cup {LongList(MaxSymbols), LongList(MaxSymbols + 1)}

\* the date arguments: two past dates, a date to come and a date that is not
\* in the format '%Y-%m-%d'
DateStrings == {"2024-01-01", "2024-06-01", "2999-01-01", "2024/06/01"}

\* datetime.now()
now == 20250101

\* datetime.strptime(s, '%Y-%m-%d'): ValueError for a string in another format
strptime(s) ==
    CASE s = "2024-01-01" -> [raised |-> FALSE, value |-> 20240101]
      [] s = "2024-06-01" -> [raised |-> FALSE, value |-> 20240601]
      [] s = "2999-01-01" -> [raised |-> FALSE, value |-> 29990101]
      [] OTHER -> [raised |-> TRUE, value |-> 0]

\* "not symbol" of a list element
Falsy(symbol) ==
    IF "str" \in DOMAIN symbol THEN symbol.str = "" ELSE symbol.int = 0

\* len(symbol) raises TypeError for a number
LenRaises(symbol) == "str" \notin DOMAIN symbol

\* a test of the codes that looks for the empty code only
InvalidEmptyOnly(symbol) == Falsy(symbol)

\* "not symbol or len(symbol) < 6", where len does not raise
Invalid(symbol) == Falsy(symbol) \/ Len(symbol.str) < 6

RECURSIVE CheckCodes(_, _)
\* the loop "for symbol in symbols" from element i on: "false" at the first
\* invalid code, "raised" where len raises, "true" at the end of the list
CheckCodes(syms, i) ==
    IF i > Len(syms) THEN "true"
    ELSE IF ~Falsy(syms[i]) /\ LenRaises(syms[i]) THEN "raised"
    ELSE IF Invalid(syms[i]) THEN "false"
    ELSE CheckCodes(syms, i + 1)

\* the body of the try block of validate_symbols
ValidateBody(syms) ==
    IF Len(syms) = 0 THEN "false"
    ELSE IF Len(syms) > MaxSymbols THEN "false"
    ELSE CheckCodes(syms, 1)

\* utils.validate_symbols: an exception of the body is caught, logged and
\* answered with False, so the function itself raises nothing
validate_symbols(syms) ==
    [raised |-> FALSE, value |-> ValidateBody(syms) = "true"]

\* utils.validate_date_range
validate_date_range(start_date, end_date) ==
    IF start_date >= end_date THEN FALSE
    ELSE IF start_date > now THEN FALSE
    ELSE IF end_date > now THEN FALSE
    ELSE TRUE

\* the validation at the head of run_all_backtests: "raised" when a check
\* fails (ValueError) or a date does not parse, else "validated"
Validated(req) ==
    IF ~validate_symbols(req.symbols).value THEN "raised"
    ELSE IF strptime(req.start_date).raised \/ strptime(req.end_date).raised
    THEN "raised"
    ELSE IF ~validate_date_range(strptime(req.start_date).value,
                                 strptime(req.end_date).value)
    THEN "raised"
    ELSE "validated"

\* what a backtest of the runner gives: an exception, which the run_*
\* function logs and raises again, or a result with its initial_capital
Outcomes ==
    {[raised |-> TRUE, initial_capital |-> 0]}
        \cup {[raised |-> FALSE, initial_capital |-> c] : c \in {10, 20}}

\* a runner that goes on after a failed step
Swallow(outcome, done) == done

\* "except Exception as e: ... raise" of run_all_backtests: an exception of
\* a step ends the function
Propagate(outcome, done) == IF outcome.raised THEN "raised" ELSE done

\* validate_symbols(symbols), called on its own
ValidateSymbols ==
    /\ mode = "runner"
    /\ valid = <<>>
    /\ valid' = <<validate_symbols(request.symbols)>>
    /\ UNCHANGED <<mode, request, pc, calls, first>>
    /\ UNCHANGED engineVars
    /\ UNCHANGED stockVars
    /\ UNCHANGED ledgerVars
    /\ UNCHANGED drawdownVars
    /\ UNCHANGED calendarVars

\* run_all_backtests up to its first backtest
Validate ==
    /\ mode = "runner"
    /\ pc = "start"
    /\ pc' = Validated(request)
    /\ UNCHANGED <<mode, request, valid, calls, first>>
    /\ UNCHANGED engineVars
    /\ UNCHANGED stockVars
    /\ UNCHANGED ledgerVars
    /\ UNCHANGED drawdownVars
    /\ UNCHANGED calendarVars

\* custom_results = run_backtest_cached(portfolio, symbols, start_date, end_date)
RunCustom ==
    /\ mode = "runner"
    /\ pc = "validated"
    /\ \E outcome \in Outcomes :
          /\ calls' = Append(calls, [name |-> "custom", initial_capital |-> 0,
                                     outcome |-> outcome])
          /\ pc' = Propagate(outcome, "custom_done")
    /\ UNCHANGED <<mode, request, valid, first>>
    /\ UNCHANGED engineVars
    /\ UNCHANGED stockVars
    /\ UNCHANGED ledgerVars
    /\ UNCHANGED drawdownVars
    /\ UNCHANGED calendarVars

\* benchmark_results = run_benchmark_backtest(benchmark, start_date, end_date,
\*     initial_capital=custom_results['initial_capital'])
RunBenchmark ==
    /\ mode = "runner"
    /\ pc = "custom_done"
    /\ \E outcome \in Outcomes :
          /\ calls' = Append(calls,
                 [name |-> "benchmark",
                  initial_capital |-> calls[Len(calls)].outcome.initial_capital,
                  outcome |-> outcome])
          /\ pc' = Propagate(outcome, "benchmark_done")
    /\ UNCHANGED <<mode, request, valid, first>>
    /\ UNCHANGED engineVars
    /\ UNCHANGED stockVars
    /\ UNCHANGED ledgerVars
    /\ UNCHANGED drawdownVars
    /\ UNCHANGED calendarVars

\* buy_hold_results = run_buy_hold_backtest(symbols, start_date, end_date,
\*     initial_capitals), and the return of the three results
RunBuyHold ==
    /\ mode = "runner"
    /\ pc = "benchmark_done"
    /\ \E outcome \in Outcomes :
          /\ calls' = Append(calls, [name |-> "buy_hold", initial_capital |-> 0,
                                     outcome |-> outcome])
          /\ pc' = Propagate(outcome, "returned")
    /\ UNCHANGED <<mode, request, valid, first>>
    /\ UNCHANGED engineVars
    /\ UNCHANGED stockVars
    /\ UNCHANGED ledgerVars
    /\ UNCHANGED drawdownVars
    /\ UNCHANGED calendarVars

InitRunner ==
    /\ mode = "runner"
    /\ request \in [symbols : SymbolLists, start_date : DateStrings,
                    end_date : DateStrings]
    /\ valid = <<>>
    /\ pc = "start"
    /\ calls = <<>>
    /\ NoEngine
    /\ NoStock
    /\ NoLedger
    /\ NoDrawdown
    /\ NoCalendar

NextRunner ==
    ValidateSymbols \/ Validate \/ RunCustom \/ RunBenchmark \/ RunBuyHold

SpecRunner == InitRunner /\ [][NextRunner]_vars

-----------------------------------------------------------------------------
(* What the claims speak of.                                               *)

Dates == 1 .. Len(index)

\* the trade records of one date
TradesOn(date) == {k \in 1 .. Len(trades) : trades[k].date = date}

RECURSIVE SharesAtClose(_, _, _)
\* sum over the first n instruments of shares times close
SharesAtClose(h, prices, n) ==
    IF n = 0 THEN Zero
    ELSE RAdd(SharesAtClose(h, prices, n - 1), RMul(h[n], R(prices[n])))

Max(a, b) == IF a > b THEN a ELSE b
Min(a, b) == IF a < b THEN a ELSE b

\* the sized buy order of the specification: M the signal's magnitude, P the
\* close, f the fee rate, C the available cash
SizedBuy(M, P, f, C) ==
    LET unit == RMul(R(P), RAdd(One, f))
    IN  Max(0, Min(RFloor(RDiv(M, unit)), RFloor(RDiv(C, unit))))

\* the sized sell order of the specification: H the current holdings
SizedSell(M, P, H) ==
    LET byIntent == R(RFloor(RDiv(M, R(P))))
    IN  IF RLt(RMin(H, byIntent), Zero) THEN Zero ELSE RMin(H, byIntent)

\* C1: on every recorded date the portfolio value equals the recorded cash
\* plus, over the instruments, the shares held after the date's trading times
\* the date's close.
C1_Conservation ==
    mode = "engine" =>
        \A i \in Dates :
            portfolio_values[i] =
                RAdd(cash_history[i],
                     SharesAtClose(daylog[i].holdings1, daylog[i].prices, symbols))

\* C1's case: a run with a buy, a sell and a date without a trade, holding
\* shares on its last date.
C1_Witness ==
    /\ mode = "engine"
    /\ \E k \in 1 .. Len(trades) : trades[k].type = "buy"
    /\ \E k \in 1 .. Len(trades) : trades[k].type = "sell"
    /\ \E i \in Dates : TradesOn(index[i]) = {}
    /\ \E s \in 1 .. symbols : holdings[s] # Zero

\* C2: on every date every instrument's holdings are a whole number of
\* shares and not negative.
C2_HoldingsIntegral ==
    mode = "engine" =>
        \A i \in Dates : \A s \in 1 .. symbols :
            /\ RIsInt(daylog[i].holdings1[s])
            /\ RLe(Zero, daylog[i].holdings1[s])

\* C3: cash is never negative, and a buy never costs more, commission
\* included, than the cash there was before it.
C3_CashNeverNegative ==
    mode = "engine" =>
        /\ \A i \in Dates : RLe(Zero, cash_history[i])
        /\ \A i \in Dates : \A k \in TradesOn(index[i]) :
              trades[k].type = "buy" =>
                  RLe(RAdd(trades[k].value, trades[k].commission), daylog[i].cash0)

\* C6: on a date with a net buy signal of magnitude M, at a close P > 0
\* with cash C, the shares of an instrument grow by exactly
\* max(0, min(floor(M/(P(1+f))), floor(C/(P(1+f))))).
C6_SizedBuy ==
    mode = "engine" =>
        \A i \in Dates : \A s \in 1 .. symbols :
            (daylog[i].signal > 0 /\ daylog[i].prices[s] > 0) =>
                RSub(daylog[i].holdings1[s], daylog[i].holdings0[s]) =
                    R(SizedBuy(R(daylog[i].signal), daylog[i].prices[s],
                               commission_rate, daylog[i].cash0))

\* C7: on a date with a net sell signal of magnitude M, at a close P > 0
\* with holdings H, the shares of an instrument shrink by exactly
\* max(0, min(H, floor(M/P))).
C7_SizedSell ==
    mode = "engine" =>
        \A i \in Dates : \A s \in 1 .. symbols :
            (daylog[i].signal < 0 /\ daylog[i].prices[s] > 0) =>
                RSub(daylog[i].holdings0[s], daylog[i].holdings1[s]) =
                    SizedSell(R(-daylog[i].signal), daylog[i].prices[s],
                              daylog[i].holdings0[s])

\* C8: every trade record's commission is |shares x price| x fee rate.
C8_Commission ==
    mode = "engine" =>
        \A k \in 1 .. Len(trades) :
            trades[k].commission =
                RMul(RAbs(RMul(trades[k].shares, R(trades[k].price))),
                     commission_rate)

\* C9: no trade record has 0 shares; a date on which no instrument's share
\* count moves has no record, and a date without a record leaves cash and
\* holdings as they were.
C9_NoZeroTrade ==
    mode = "engine" =>
        /\ \A k \in 1 .. Len(trades) : trades[k].shares # Zero
        /\ \A i \in Dates :
              /\ daylog[i].holdings1 = daylog[i].holdings0
                    => TradesOn(index[i]) = {}
              /\ TradesOn(index[i]) = {}
                    => /\ daylog[i].cash1 = daylog[i].cash0
                       /\ daylog[i].holdings1 = daylog[i].holdings0

\* C9's case: a date that carries a trading signal and whose order comes to
\* 0 shares, in a run that has traded before.
C9_Witness ==
    /\ mode = "engine"
    /\ Len(trades) > 0
    /\ \E i \in Dates :
          /\ daylog[i].has_signal
          /\ TradesOn(index[i]) = {}
          /\ \E k \in 1 .. Len(trades) : trades[k].date < index[i]

\* C10: the dates processed are strictly ascending (each once), every one
\* of them has exactly one cash, one holdings-value and one portfolio-value
\* entry whether or not it traded, and the trade log's dates never decrease
\* and are processed dates.
C10_Chronological ==
    mode = "engine" =>
        /\ \A i \in Dates : \A j \in Dates : i < j => index[i] < index[j]
        /\ Len(cash_history) = Len(index)
        /\ Len(holdings_history) = Len(index)
        /\ Len(portfolio_values) = Len(index)
        /\ \A i \in Dates : daylog[i].date = index[i] /\ index[i] <= day
        /\ \A k \in 1 .. Len(trades) : \A l \in 1 .. Len(trades) :
              k < l => trades[k].date <= trades[l].date
        /\ \A k \in 1 .. Len(trades) : \E i \in Dates : index[i] = trades[k].date

\* C10's case: three dates, one skipped by the calendar, one with a trade
\* and a later one without.
C10_Witness ==
    /\ mode = "engine"
    /\ day = 3
    /\ Len(index) = 2
    /\ TradesOn(index[1]) # {}
    /\ TradesOn(index[2]) = {}

\* the value get_signals returned, once it has returned one
Returned == result # <<>> /\ ~result[1].raised
Bars == 1 .. Len(data)

\* The enabled rules of one side that fire on a bar: the bar is a trade date
\* of the rule and the rule's notional there is positive (a notional that is
\* not positive, as a fixed share count at a close <= 0, is no order).
Firing(bar, rules, side) ==
    {i \in 1 .. Len(rules) :
        /\ rules[i].enabled
        /\ TradeDateOf(bar, rules[i], side)
        /\ RGt(StrategyAmount(bar, rules[i]), Zero)}

RECURSIVE Notional(_, _, _)
\* the notionals of the rules I of a list on a bar, each rule once
Notional(bar, rules, I) ==
    IF I = {} THEN Zero
    ELSE LET i == CHOOSE x \in I : TRUE
         IN  RAdd(StrategyAmount(bar, rules[i]), Notional(bar, rules, I \ {i}))

BuyNotional(bar) == Notional(bar, buy_strategies, Firing(bar, buy_strategies, "buy"))
SellNotional(bar) == Notional(bar, sell_strategies, Firing(bar, sell_strategies, "sell"))

\* C4: for every bar of the series, the signal get_signals returns is the
\* total notional of the enabled buy rules firing on the bar minus the total
\* notional of the enabled sell rules firing on it, each rule counted once.
C4_NetOfAllRules ==
    Returned =>
        /\ Len(result[1].signals) = Len(data)
        /\ \A k \in Bars :
              result[1].signals[k] = RSub(BuyNotional(data[k]), SellNotional(data[k]))

\* C4's case: a bar on which two enabled buy rules and an enabled sell rule
\* fire and leave a net that is not 0, beside a disabled rule.
C4_Witness ==
    /\ Returned
    /\ \E k \in Bars :
          /\ Cardinality(Firing(data[k], buy_strategies, "buy")) = 2
          /\ Cardinality(Firing(data[k], sell_strategies, "sell")) = 1
          /\ Len(sell_strategies) = 2
          /\ result[1].signals[k] # Zero

\* C5: on a bar where the firing buy rules and the firing sell rules carry
\* the same total notional, not 0, the aggregated signal is 0; and the
\* single-instrument ledger records no trade on a date whose signal is 0.
C5_Cancellation ==
    /\ Returned =>
          \A k \in Bars :
              (BuyNotional(data[k]) = SellNotional(data[k])
                 /\ BuyNotional(data[k]) # Zero)
                  => result[1].signals[k] = Zero
    /\ (mode = "engine" /\ symbols = 1) =>
          \A i \in Dates : daylog[i].signal = 0 => TradesOn(index[i]) = {}

\* C5's case: a bar on which buy and sell rules fire with equal totals.
C5_Witness ==
    /\ Returned
    /\ \E k \in Bars :
          /\ BuyNotional(data[k]) = SellNotional(data[k])
          /\ RGt(BuyNotional(data[k]), Zero)
          /\ result[1].signals[k] = Zero

\* C11: before the first date is processed, an instrument with
\* initial_investment > 0 holds floor(initial_investment / (P0 (1 + f)))
\* shares bought at the first close P0 (the largest whole number of shares
\* whose cost with the fee is within initial_investment) and its cash is
\* max_investment less that purchase's notional and commission; with
\* initial_investment = 0 it holds no shares and its cash is max_investment.
C11_OpeningPosition ==
    (mode = "ledger" /\ ledger # <<>>) =>
        LET stock == instrument[1]
            l == ledger[1]
            unit == RMul(R(stock.P0), RAdd(One, fee_rate))
            notional == R(l.holdings * stock.P0)
        IN  /\ l.holdings \in Nat
            /\ stock.initial_investment > 0 =>
                  /\ RLe(RMul(R(l.holdings), unit), R(stock.initial_investment))
                  /\ RLt(R(stock.initial_investment), RMul(R(l.holdings + 1), unit))
                  /\ RAdd(l.cash, RAdd(notional, RMul(notional, fee_rate)))
                        = R(stock.max_investment)
            /\ stock.initial_investment = 0 =>
                  /\ l.holdings = 0
                  /\ l.cash = R(stock.max_investment)
                  /\ l.trades = <<>>

\* C11's case: an opening buy of several shares whose cost with the fee does
\* not use up the initial investment, from a larger budget.
C11_Witness ==
    /\ mode = "ledger"
    /\ ledger # <<>>
    /\ instrument[1].initial_investment > 0
    /\ instrument[1].initial_investment < instrument[1].max_investment
    /\ ledger[1].holdings > 1
    /\ RLt(RMul(R(ledger[1].holdings * instrument[1].P0), RAdd(One, fee_rate)),
           R(instrument[1].initial_investment))

\* the instruments with a trade record on a date
TradedOn(date) == {trades[k].symbol : k \in TradesOn(date)}

\* C12: each instrument has its own cash and ledger: on a date on which
\* only other instruments trade, the cash available to an instrument and its
\* holdings are what they were before the date.  (The engine keeps one cash
\* amount for the run; it is the cash available to every instrument.)
C12_OwnLedger ==
    mode = "engine" =>
        \A i \in Dates : \A t \in 1 .. symbols :
            (t \notin TradedOn(index[i]) /\ TradedOn(index[i]) # {}) =>
                /\ daylog[i].cash1 = daylog[i].cash0
                /\ daylog[i].holdings1[t] = daylog[i].holdings0[t]

\* the cumulative series calculate_max_drawdown was given
Values == calculate_cumulative_returns(returns)
Days == 1 .. Len(returns)
Computed == mode = "drawdown" /\ max_dd_info # <<>> /\ Len(returns) > 0

\* the running peak at D: the greatest value among the dates <= D
PeakValueAt(c, D) ==
    CHOOSE m \in {c[j] : j \in 1 .. D} : \A j \in 1 .. D : RLe(c[j], m)

\* cum(D) / runningPeak(D) - 1
DrawdownAt(c, D) == RSub(RDiv(c[D], PeakValueAt(c, D)), One)

\* C13: the reported trough T is a date of the deepest drawdown and the
\* reported peak P a date at or before T carrying the running peak at T; when
\* P is prior to T, the reported recovery date is the first date R at or
\* after T whose value is >= the value at P; for 100, 120, 90, 80, 110, 130
\* the trough is 80, the peak 120 and the recovery is at 130.
C13_RecoveryDate ==
    Computed =>
        LET c == Values
            T == max_dd_info[1].max_drawdown_date
            P == max_dd_info[1].peak_date
        IN  /\ T \in Days /\ P \in 1 .. T
            /\ \A D \in Days : RLe(DrawdownAt(c, T), DrawdownAt(c, D))
            /\ \A j \in 1 .. T : RLe(c[j], c[P])
            /\ P < T =>
                  \A Rd \in T .. Len(c) :
                      (RLe(c[P], c[Rd]) /\ \A j \in T .. Rd - 1 : RLt(c[j], c[P]))
                          => max_dd_info[1].recovery_date = Rd
            /\ returns = ExampleReturns =>
                  /\ c[T] = R(80)
                  /\ c[P] = R(120)
                  /\ max_dd_info[1].recovery_date \in Days
                  /\ c[max_dd_info[1].recovery_date] = R(130)

\* C13's case: the series 100, 120, 90, 80, 110, 130, whose value 110 after
\* the trough is still below the peak.
C13_Witness ==
    /\ Computed
    /\ returns = ExampleReturns
    /\ max_dd_info[1].max_drawdown_date = 4
    /\ max_dd_info[1].recovery_date = 6

\* C14: when the maximum drawdown is recovered at R, recovery_days is the
\* number of bars from the trough T to R, both counted.
C14_RecoveryDays ==
    (Computed /\ max_dd_info[1].recovery_date # 0) =>
        max_dd_info[1].recovery_days =
            max_dd_info[1].recovery_date - max_dd_info[1].max_drawdown_date + 1

\* the return series of one or two days
ShortSeries == UNION {[1 .. n -> DailyReturns] : n \in 1 .. 2}

\* the recovery_days reported together with a recovery date
RecoveredDays ==
    {calculate_max_drawdown(calculate_cumulative_returns(r)).recovery_days :
        r \in {x \in ShortSeries :
                  calculate_max_drawdown(
                      calculate_cumulative_returns(x)).recovery_date # 0}}

\* C15: when no value at or after the trough reaches the peak (the trough
\* may be the last date), the result has recovery_date None and a
\* recovery_days that no result with a recovery date carries, one recovered
\* in 0 days included.
C15_UnrecoveredSentinel ==
    Computed =>
        LET c == Values
            T == max_dd_info[1].max_drawdown_date
            P == max_dd_info[1].peak_date
        IN  (\A j \in T .. Len(c) : RLt(c[j], c[P])) =>
                /\ max_dd_info[1].recovery_date = 0
                /\ max_dd_info[1].recovery_days \notin RecoveredDays

\* C16: max_drawdown is the least, over the dates D, of
\* cum(D) / runningPeak(D) - 1; it is never positive, and 0 exactly when no
\* value is below its running peak; PerformanceAnalyzer reports the same
\* number for the same series.
C16_MaxDrawdown ==
    /\ Computed =>
          LET c == Values
              m == max_dd_info[1].max_drawdown
          IN  /\ \A D \in Days : RLe(m, DrawdownAt(c, D))
              /\ \E D \in Days : m = DrawdownAt(c, D)
              /\ RLe(m, Zero)
              /\ m = Zero <=> \A D \in Days : c[D] = PeakValueAt(c, D)
    /\ (Computed /\ metrics # <<>>) =>
          metrics[1].max_drawdown = max_dd_info[1].max_drawdown

\* C16's case: both computations done on a series with two drawdowns, the
\* deeper one the later.
C16_Witness ==
    /\ Computed
    /\ metrics # <<>>
    /\ \E D \in Days : \E E \in Days :
          /\ D < E
          /\ RLt(DrawdownAt(Values, D), Zero)
          /\ \E F \in D .. E : DrawdownAt(Values, F) = Zero
          /\ RLt(DrawdownAt(Values, E), DrawdownAt(Values, D))
          /\ max_dd_info[1].max_drawdown = DrawdownAt(Values, E)

\* C17: on a date that carries a signal and whose close for an instrument
\* is zero or negative, the instrument has no trade record, its holdings are
\* those of the previous date and, the instrument being the only one, so is
\* the cash.
C17_NonPositiveClose ==
    mode = "engine" =>
        \A i \in Dates : \A s \in 1 .. symbols :
            (daylog[i].signal # 0 /\ daylog[i].prices[s] <= 0) =>
                /\ s \notin TradedOn(index[i])
                /\ daylog[i].holdings1[s] = daylog[i].holdings0[s]
                /\ symbols = 1 => daylog[i].cash1 = daylog[i].cash0

\* the rule lists get_signals saw on its n-th call
BuysAtCall(n) ==
    IF n = 1 /\ first # <<>> THEN first[1].buy_strategies ELSE buy_strategies
SellsAtCall(n) ==
    IF n = 1 /\ first # <<>> THEN first[1].sell_strategies ELSE sell_strategies

\* a rule with a malformed configuration: a kind that is none of the three
\* rule kinds, a frequency that is none of the three periods, or neither a
\* share count nor an amount
Malformed(rule) ==
    \/ rule.type \notin {"time_based", "macd_pattern", "ma_touch"}
    \/ (rule.type = "time_based" /\ "frequency" \in DOMAIN rule.params
          /\ rule.params.frequency \notin {"daily", "weekly", "monthly"})
    \/ ("trade_shares" \notin DOMAIN rule.params
          /\ "trade_amount" \notin DOMAIN rule.params)

\* C18: get_signals returns a signal series only when none of the enabled
\* rules is malformed: a malformed rule is rejected with an error, never
\* answered with a series.
C18_MalformedRejected ==
    mode = "rules" =>
        \A n \in 1 .. Len(result) :
            ~result[n].raised =>
                /\ \A i \in 1 .. Len(BuysAtCall(n)) :
                      BuysAtCall(n)[i].enabled => ~Malformed(BuysAtCall(n)[i])
                /\ \A i \in 1 .. Len(SellsAtCall(n)) :
                      SellsAtCall(n)[i].enabled => ~Malformed(SellsAtCall(n)[i])

\* the enabled rules of a list, in order
EnabledOnly(rules) == SelectSeq(rules, LAMBDA rule : rule.enabled)

\* an enabled rule of the list on which generation fails: a kind get_signals
\* does not know, or a trade date without an amount to size
Failing(bars, rules, side) ==
    \E i \in 1 .. Len(rules) :
        /\ rules[i].enabled
        /\ \/ rules[i].type # "time_based"
           \/ \E k \in 1 .. Len(bars) :
                 /\ TradeDateOf(bars[k], rules[i], side)
                 /\ "trade_shares" \notin DOMAIN rules[i].params
                 /\ \/ "trade_amount" \notin DOMAIN rules[i].params
                    \/ bars[k].Close = 0

\* what the rule disabled between the calls added to the signal of a bar
Contribution(bar) ==
    LET was == first[1]
        rules == IF was.side = "buy" THEN was.buy_strategies
                 ELSE was.sell_strategies
        rule == rules[was.i]
        amount == IF TradeDateOf(bar, rule, was.side)
                     /\ RGt(StrategyAmount(bar, rule), Zero)
                  THEN StrategyAmount(bar, rule) ELSE Zero
    IN  IF was.side = "buy" THEN amount ELSE RNeg(amount)

\* C19: a disabled rule is never evaluated.  A call of get_signals raises
\* only on account of an enabled rule, whatever the kind and parameters of the
\* disabled ones; what it returns is what it returns for the enabled rules
\* alone; and after a rule has been disabled, a second call returns, bar by
\* bar, the first call's signal less that rule's contribution.
C19_DisabledNeverEvaluated ==
    mode = "rules" =>
        /\ \A n \in 1 .. Len(result) :
              /\ result[n].raised =>
                    \/ Failing(data, BuysAtCall(n), "buy")
                    \/ Failing(data, SellsAtCall(n), "sell")
              /\ result[n] = get_signals(data, EnabledOnly(BuysAtCall(n)),
                                         EnabledOnly(SellsAtCall(n)))
        /\ (Len(result) = 2 /\ first # <<>>
               /\ ~result[1].raised /\ ~result[2].raised) =>
              \A k \in Bars :
                  result[2].signals[k] =
                      RSub(result[1].signals[k], Contribution(data[k]))

\* C19's case: beside a disabled rule of an unknown kind, a rule that fired
\* on the first call is disabled and the second call returns another series.
C19_Witness ==
    /\ mode = "rules"
    /\ Len(result) = 2
    /\ first # <<>>
    /\ ~result[1].raised
    /\ ~result[2].raised
    /\ result[2] # result[1]
    /\ \E i \in 1 .. Len(first[1].buy_strategies) :
          first[1].buy_strategies[i] = UnknownKindOff

-----------------------------------------------------------------------------
(* The figures of a finished run.                                          *)

\* run_backtest: total_return = (final_value / self.initial_capital) - 1
total_return(values) == RSub(RDiv(values[Len(values)], initial_capital), One)

\* the value series over its first entry, as results_display hands it to
\* calculate_max_drawdown
OverFirst(values) == [i \in 1 .. Len(values) |-> RDiv(values[i], values[1])]

\* a run of BuyAndHoldStrategy on one instrument whose close is the same
\* positive P on every bar: the signal is 1 on the first bar and 0 after
BuyAndHoldRun ==
    /\ mode = "engine"
    /\ symbols = 1
    /\ strategy = "latch"
    /\ first = <<>>
    /\ Len(daylog) >= 1
    /\ daylog[1].signal = 1
    /\ \A k \in 2 .. Len(daylog) : daylog[k].signal = 0
    /\ \E P \in Prices :
          /\ P > 0
          /\ \A k \in 1 .. Len(daylog) : daylog[k].prices[1] = P

\* C21: a buy-and-hold run on one instrument at a constant price records
\* exactly one trade, and its total_return and max_drawdown are both 0.
C21_BuyAndHoldBaseline ==
    BuyAndHoldRun =>
        /\ Len(trades) = 1
        /\ total_return(portfolio_values) = Zero
        /\ calculate_max_drawdown(OverFirst(portfolio_values)).max_drawdown = Zero

-----------------------------------------------------------------------------
(* The trade dates of a time-based rule.                                   *)

\* the calendar week and the calendar month of a date (date 1 is Monday
\* 2022-01-31, the dates after it are in February)
WeekOf(d) == (d - 1) \div 7
MonthOf(d) == IF d = 1 THEN 1 ELSE 2

PeriodOf(d, frequency) == IF frequency = "weekly" THEN WeekOf(d) ELSE MonthOf(d)

\* bar k is the Nth bar of its calendar period
NthBarOfPeriod(bars, k, frequency, N) ==
    Cardinality({j \in 1 .. k :
        PeriodOf(bars[j].date, frequency) = PeriodOf(bars[k].date, frequency)}) = N

\* the dates on which the rule is to fire
FiresOn(bars, k, rule) ==
    LET frequency == Get(rule.params, "frequency", "daily")
    IN  \/ frequency = "daily"
        \/ /\ frequency \in {"weekly", "monthly"}
           /\ NthBarOfPeriod(bars, k, frequency, Get(rule.params, "trading_day", 1))

\* C22: the one enabled time-based buy rule of a Stock without sell rules
\* fires on exactly the Nth bar of each calendar week or month (on every
\* bar when its period is the day), and always as a buy.
C22_NthTradingDay ==
    (/\ mode = "stock"
     /\ Returned
     /\ Len(buy_strategies) = 1
     /\ buy_strategies[1].enabled
     /\ sell_strategies = <<>>
     /\ \A k \in Bars : data[k].Close > 0) =>
        \A k \in Bars :
            /\ RLe(Zero, result[1].signals[k])
            /\ RGt(result[1].signals[k], Zero) <=> FiresOn(data, k, buy_strategies[1])

\* an enabled rule of the kind 'ma_touch' among the rules of call n
HasMaTouch(n) ==
    \/ \E i \in 1 .. Len(BuysAtCall(n)) :
          BuysAtCall(n)[i].enabled /\ BuysAtCall(n)[i].type = "ma_touch"
    \/ \E i \in 1 .. Len(SellsAtCall(n)) :
          SellsAtCall(n)[i].enabled /\ SellsAtCall(n)[i].type = "ma_touch"

\* C23: ma_touch is a supported rule kind: get_signals on a Stock with an
\* enabled ma_touch rule, its other enabled rules well-formed time-based
\* rules, completes without an error.
C23_MaTouchSupported ==
    mode = "rules" =>
        \A n \in 1 .. Len(result) :
            (/\ HasMaTouch(n)
             /\ \A i \in 1 .. Len(BuysAtCall(n)) :
                   BuysAtCall(n)[i].enabled =>
                       BuysAtCall(n)[i] \in {MaTouch, AmountDaily}
             /\ \A k \in 1 .. Len(data) : data[k].Close > 0) =>
                ~result[n].raised

\* the notional of a rule on a bar where it fires: the configured amount A,
\* or the configured share count s at the bar's close with the fee
ConfiguredNotional(bar, rule) ==
    IF "trade_shares" \in DOMAIN rule.params
    THEN RMul(RMul(R(rule.params.trade_shares), R(bar.Close)), RAdd(One, fee_rate))
    ELSE R(rule.params.trade_amount)

\* C24: what the one enabled buy rule of a Stock without sell rules
\* contributes on a bar is the configured amount itself (fixed-amount mode)
\* or shares x close x (1 + fee_rate) (fixed-share mode) where the rule
\* fires, and 0 on every other bar.
C24_Notional ==
    (/\ mode = "stock"
     /\ Returned
     /\ Len(buy_strategies) = 1
     /\ buy_strategies[1].enabled
     /\ sell_strategies = <<>>
     /\ \A k \in Bars : data[k].Close > 0) =>
        \A k \in Bars :
            result[1].signals[k] =
                IF TradeDateOf(data[k], buy_strategies[1], "buy")
                THEN ConfiguredNotional(data[k], buy_strategies[1])
                ELSE Zero

\* the dates on which some instrument has a bar
UnionDates == {d \in 1 .. Len(stock_data) : \E s \in Requested : stock_data[d][s] # NoQuote}

\* C25: when both instruments were fetched, the dates of the composed series
\* are the union of the instruments' dates: no trading date of an instrument
\* is dropped.
C25_OuterJoin ==
    (/\ mode = "calendar"
     /\ common_dates # <<>>
     /\ price_data[1].columns = Requested) =>
        common_dates[1] = UnionDates

\* returns = portfolio_series.pct_change().dropna(): the first date has none
pct_change(values) ==
    [i \in 1 .. Len(values) - 1 |-> RSub(RDiv(values[i + 1], values[i]), One)]

\* PerformanceAnalyzer._calculate_return_metrics, its total_return:
\* (1 + returns).prod() - 1
_calculate_return_metrics(r) == RSub(CumProd(r, Len(r)), One)

\* a run of two dates or more, every value of which is positive
ValuedRun ==
    /\ mode = "engine"
    /\ first = <<>>
    /\ Len(portfolio_values) >= 2
    /\ \A i \in 1 .. Len(portfolio_values) : RGt(portfolio_values[i], Zero)

\* C26: the total_return of run_backtest's result is the cumulative product
\* of (1 + daily return) over the run's returns minus 1, the figure that
\* PerformanceAnalyzer derives from the same returns, that is last value
\* over first-date value minus 1.
C26_TotalReturn ==
    ValuedRun =>
        /\ total_return(portfolio_values) =
              _calculate_return_metrics(pct_change(portfolio_values))
        /\ total_return(portfolio_values) =
              RSub(RDiv(portfolio_values[Len(portfolio_values)],
                        portfolio_values[1]), One)

\* the list holds codes only (strings)
ListOfCodes(syms) == \A i \in 1 .. Len(syms) : "str" \in DOMAIN syms[i]

\* C27: validate_symbols never raises; for a list of codes it returns False
\* when the list is empty, has more than 50 codes, or holds an empty code or
\* a code of fewer than 6 characters, and True for every other list.
C27_ValidateSymbols ==
    (mode = "runner" /\ valid # <<>>) =>
        /\ ~valid[1].raised
        /\ ListOfCodes(request.symbols) =>
              (valid[1].value <=>
                  ~(\/ Len(request.symbols) = 0
                    \/ Len(request.symbols) > 50
                    \/ \E i \in 1 .. Len(request.symbols) :
                          \/ request.symbols[i].str = ""
                          \/ Len(request.symbols[i].str) < 6))

\* C27's case: a list whose second code is too short was refused
C27_Witness ==
    /\ mode = "runner"
    /\ valid # <<>>
    /\ Len(request.symbols) = 2
    /\ request.symbols[1] = [str |-> "000001"]
    /\ request.symbols[2] = [str |-> "00001"]
    /\ ~valid[1].value

\* the request passes the validation at the head of run_all_backtests
PassesValidation ==
    /\ validate_symbols(request.symbols).value
    /\ request.start_date \in {"2024-01-01", "2024-06-01", "2999-01-01"}
    /\ request.end_date \in {"2024-01-01", "2024-06-01", "2999-01-01"}
    /\ strptime(request.start_date).value < strptime(request.end_date).value
    /\ strptime(request.end_date).value <= now

\* C29: run_all_backtests starts a backtest only after the symbols and the
\* date range have passed validation; the backtests it starts are the custom
\* one, the benchmark with the custom result's initial_capital and the
\* buy-and-hold one, in this order; a step that raises is the last step and
\* ends the function with the error.
C29_RunAllOrder ==
    mode = "runner" =>
        /\ calls # <<>> => PassesValidation
        /\ (pc # "start" /\ ~PassesValidation) => (pc = "raised" /\ calls = <<>>)
        /\ Len(calls) <= 3
        /\ \A k \in 1 .. Len(calls) :
              /\ calls[k].name = <<"custom", "benchmark", "buy_hold">>[k]
              /\ calls[k].outcome.raised => (k = Len(calls) /\ pc = "raised")
        /\ Len(calls) >= 2 =>
              calls[2].initial_capital = calls[1].outcome.initial_capital
        /\ pc = "returned" =>
              (Len(calls) = 3 /\ \A k \in 1 .. 3 : ~calls[k].outcome.raised)

\* C29's case: the benchmark backtest raised after the custom one returned
C29_Witness ==
    /\ mode = "runner"
    /\ Len(calls) = 2
    /\ ~calls[1].outcome.raised
    /\ calls[2].outcome.raised
    /\ pc = "raised"

\* the strategy of the run supplies trading signals (get_trading_signals),
\* and their value on the date of the entry is not 0
TradingSignalOn(e) == strategy = "dca" /\ e.signal # 0

NonZeroUpTo(k) == {j \in 1 .. k : daylog[j].signal # 0}

\* the last of them
LastNonZero(k) == CHOOSE j \in NonZeroUpTo(k) : \A i \in NonZeroUpTo(k) : i <= j

\* C30: the position BaseStrategy.calculate_positions gives on a date is 1.0
\* when the most recent non-zero signal up to the date is a buy, and 0.0 when
\* it is a sell or there has been none; a 0 signal leaves the position as it
\* was, and the position is always 0 or 1.
C30_Latch ==
    (mode = "engine" /\ strategy = "latch" /\ first = <<>>) =>
        \A k \in 1 .. Len(daylog) :
            /\ daylog[k].target_position \in {Zero, One}
            /\ daylog[k].target_position =
                  IF NonZeroUpTo(k) = {} THEN Zero
                  ELSE IF daylog[LastNonZero(k)].signal = 1 THEN One
                  ELSE Zero
            /\ (k > 1 /\ daylog[k].signal = 0) =>
                  daylog[k].target_position = daylog[k - 1].target_position

\* C30's case: a buy, a date without a signal on which the position is held,
\* then a sell
C30_Witness ==
    /\ mode = "engine"
    /\ strategy = "latch"
    /\ first = <<>>
    /\ Len(daylog) = 3
    /\ daylog[1].signal = 1
    /\ daylog[2].signal = 0
    /\ daylog[2].target_position = One
    /\ daylog[3].signal = -1
    /\ daylog[3].target_position = Zero

=============================================================================
